---- MODULE Spec2Model ----
(***************************************************************************)
(* Model of the recipe-generation pipeline of superflore:                  *)
(*   - generate_installers, get_pkg_version, _gen_ebuild_for_package       *)
(*     (src/src/gen_packages.py)                                           *)
(*   - NixPackage (src/superflore/generators/nix/nix_package.py)           *)
(* Strings whose characters matter (versions, names, descriptions) are     *)
(* sequences of one-character strings.                                     *)
(***************************************************************************)
EXTENDS Integers, Sequences, FiniteSets, TLC

VARIABLES
    \* ---- generate_installers (batch driver) ----
    preserve_existing,  \* the preserve_existing argument
    repo_version,       \* package -> release_repository.version (raw string)
    table,              \* upstream identifiers the gentoo lookup table maps
    disk,               \* package -> set of recipe files ros-<distro>/<pkg>/*.ebuild,
                        \*   each named by its rendered version
    disk0,              \* disk as it was when the run started
    i,                  \* index of the package the loop is at
    pc,                 \* "idle" | "loop" | "done" | "aborted"
    succeeded,
    failed,
    borkd_pkgs,         \* package -> list of unresolved identifiers
    changes,            \* list of <<pkg, version>> ('*pkg --> version*')
    installers,
    bad_installers,
    outcome,            \* history: package -> terminal state of its iteration
    constructed,        \* history: packages gentoo_installer was constructed for
    recipe_created,     \* history: the packages whose recipe file open(.., "w") opened
    \* ---- get_pkg_version on its own ----
    ver_pc,             \* "idle" | "call" | "returned"
    ver_in,             \* the release version get_pkg_version reads
    ver_out,            \* what it returns: [ok, val], ok = FALSE when it raises
    \* ---- _gen_ebuild_for_package on its own ----
    gen_pc,             \* "idle" | "call" | "returned" | "raised"
    gen_manifest,       \* history: "none" | "fetched" | "fetch_failed" | "parse_failed"
    pkg_description,    \* pkg_fields['package']['description'] of the manifest
    pkg_ebuild,         \* the Ebuild it returns: [has_description, description]
    \* ---- one call of _gen_metadata_for_package ----
    meta_pc,            \* "idle" | "call" | "returned" | "raised"
    meta_manifest,      \* history: "none" | "fetched" | "fetch_failed" | "parse_failed"
    maintainer,         \* the <maintainer> elements of the manifest, in order
    repo_url,           \* repo.url, in pieces
    pkg_metadata_xml,   \* the metadata_xml it returns
    \* ---- NixPackage objects constructed in one run ----
    nix_pc,             \* "idle" | "run"
    nix_deps,           \* package name -> what DependencyWalker.get_depends gives
    archive_files,      \* archive path -> content of the file, or NoFile
    sha256_cache,       \* the sha256_cache dict: archive path -> digest
    packages,           \* package name -> the NixPackage last constructed for it
    derivation_read,    \* the last read of a NixPackage's derivation property
    calls,              \* history: package name -> number of NixPackage(...) calls
    downloads,          \* history: archive path -> number of download_file calls
    hashes,             \* history: archive path -> number of sha256 computations
    src_sha256,         \* history: archive path -> the src_sha256 last obtained
    \* ---- dependency resolution of one NixPackage on its own ----
    res_pc,             \* "idle" | "one" | "all" | "resolved" | "assembled"
    res_id,             \* the identifier _resolve_dependency is called with
    res_out,            \* what the call gives: [targets, consulted, unresolved]
    res_deps,           \* what DependencyWalker.get_depends gives for the package
    res_pkg             \* the NixPackage __init__ leaves for res_deps

drv_vars == <<preserve_existing, repo_version, table, disk, disk0, i, pc, succeeded,
              failed, borkd_pkgs, changes, installers, bad_installers, outcome,
              constructed, recipe_created>>
ver_vars == <<ver_pc, ver_in, ver_out>>
ebuild_vars == <<gen_pc, gen_manifest, pkg_description, pkg_ebuild>>
meta_vars == <<meta_pc, meta_manifest, maintainer, repo_url, pkg_metadata_xml>>
gen_vars == <<ebuild_vars, meta_vars>>
nix_vars == <<nix_pc, nix_deps, archive_files, sha256_cache, packages, derivation_read,
              calls, downloads, hashes, src_sha256>>
res_vars == <<res_pc, res_id, res_out, res_deps, res_pkg>>
vars == <<drv_vars, ver_vars, gen_vars, nix_vars, res_vars>>
not_drv_vars == <<ver_vars, gen_vars, nix_vars, res_vars>>
not_ver_vars == <<drv_vars, gen_vars, nix_vars, res_vars>>
not_gen_vars == <<drv_vars, ver_vars, nix_vars, res_vars>>
not_nix_vars == <<drv_vars, ver_vars, gen_vars, res_vars>>
not_res_vars == <<drv_vars, ver_vars, gen_vars, nix_vars>>

-----------------------------------------------------------------------------
(* Bounds *)
NPkgs == 2
MaxVerLen == 4
DescLen == 120                  \* length of the long descriptions tried
MaxCalls == 2                   \* NixPackage(...) calls per package in one run
MaxMaintainers == 2             \* <maintainer> elements of a manifest

(* Program constants *)
Backtick == 96                  \* the character '`'
MaxDescription == 80            \* the cap on the description's length

-----------------------------------------------------------------------------
(* Strings as sequences of characters *)

\* str.split(sep): the pieces of s between occurrences of the character sep.
RECURSIVE SplitFrom(_, _, _, _)
SplitFrom(s, sep, k, cur) ==
    IF k > Len(s) THEN <<cur>>
    ELSE IF s[k] = sep THEN <<cur>> \o SplitFrom(s, sep, k + 1, <<>>)
    ELSE SplitFrom(s, sep, k + 1, Append(cur, s[k]))

Split(s, sep) == SplitFrom(s, sep, 1, <<>>)

\* a set as a list, in some fixed order
RECURSIVE SetToSeq(_)
SetToSeq(S) ==
    IF S = {} THEN <<>>
    ELSE LET x == CHOOSE y \in S : TRUE IN <<x>> \o SetToSeq(S \ {x})

Range(s) == {s[k] : k \in DOMAIN s}

-----------------------------------------------------------------------------
(* get_pkg_version *)

\* maj_min_patch, deb_inc = repo.version.split('-') raises ValueError unless
\* there are exactly two pieces.
\* (the comparison deb_inc != 0, a string against a number, is always true)
get_pkg_version_compares_with_number(raw) ==
    LET parts == Split(raw, "-") IN
    IF Len(parts) # 2 THEN [ok |-> FALSE, val |-> <<>>]
    ELSE [ok |-> TRUE, val |-> parts[1] \o <<"-", "r">> \o parts[2]]

get_pkg_version(raw) ==
    LET parts == Split(raw, "-") IN
    IF Len(parts) # 2 THEN [ok |-> FALSE, val |-> <<>>]
    ELSE IF parts[2] # <<"0">>
         THEN [ok |-> TRUE, val |-> parts[1] \o <<"-", "r">> \o parts[2]]
         ELSE [ok |-> TRUE, val |-> parts[1]]

-----------------------------------------------------------------------------
(* Inputs of a batch run *)

Pkgs == 1 .. NPkgs              \* sorted(pkg_names[0]): the order is the numeric one

\* release versions a repository may carry: "1-0", "1-4" and the dash-less "1"
RawVersions == { <<"1", "-", "0">>, <<"1", "-", "4">>, <<"1">> }

\* recipe files that may lie in a package directory before the run: <pkg>-1.ebuild
\* and <pkg>-1-r4.ebuild
EbuildNames == { <<"1">>, <<"1", "-", "r", "4">> }

DepIds == {"d1", "d2"}

\* DependencyWalker.get_depends: the external (not in pkg_names[0]) run, build and
\* buildtool dependencies of a package
PkgDeps(p) == IF p % 2 = 1 THEN {"d1"} ELSE {"d1", "d2"}

\* Ebuild: the identifiers of p the resolver has no mapping for, and the list
\* Ebuild.get_unresolved() holds after get_ebuild_text() tried to resolve them
Unmapped(p) == PkgDeps(p) \ table

get_unresolved(p) == SetToSeq(Unmapped(p))

\* overlay.remove_file(f)
remove_file(files, f) == files \ {f}

-----------------------------------------------------------------------------
(* generate_installers *)

Version(p) == get_pkg_version(repo_version[p])

\* os.path.exists("ros-<distro>/<pkg>/<pkg>-<version>.ebuild")
ebuild_exists(p) == Version(p).val \in disk[p]

ShouldSkip_ignores_preserve(p) == ebuild_exists(p) /\ ~preserve_existing

ShouldSkip(p) == preserve_existing /\ ebuild_exists(p)

\* existing = glob.glob(...); if len(existing) > 0: overlay.remove_file(existing[0])
\* glob lists the directory in no particular order: existing[0] is any of the files.
\* AfterRemove(p): the disks this may leave.
AfterRemove(p) ==
    IF disk[p] = {} THEN {disk}
    ELSE { [disk EXCEPT ![p] = remove_file(disk[p], f)] : f \in disk[p] }

\* lines 81-84: borkd_pkgs[pkg] = list(); for dep in unresolved: append
\* (the variant starts the loop one element late)
RecordUnresolved_skips_first(b, p, unresolved) ==
    [q \in DOMAIN b \cup {p} |-> IF q = p THEN Tail(unresolved) ELSE b[q]]

RecordUnresolved(b, p, unresolved) ==
    [q \in DOMAIN b \cup {p} |-> IF q = p THEN unresolved ELSE b[q]]

\* the loop is at package p and its version was read without an error
AtPackage(p) == pc = "loop" /\ i = p /\ p \in Pkgs /\ Version(p).ok

\* the package is regenerated, not skipped
Regenerating(p) == AtPackage(p) /\ ~ShouldSkip(p)

VerIdle == ver_pc = "idle" /\ ver_in = <<>> /\ ver_out = [ok |-> FALSE, val |-> <<>>]

EbuildIdle ==
    /\ gen_pc = "idle"
    /\ gen_manifest = "none"
    /\ pkg_description = <<>>
    /\ pkg_ebuild = [has_description |-> FALSE, description |-> <<>>]

MetaIdle ==
    /\ meta_pc = "idle"
    /\ meta_manifest = "none"
    /\ maintainer = <<>>
    /\ repo_url = <<>>
    /\ pkg_metadata_xml = [upstream_email |-> "", upstream_name |-> "",
                           upstream_bug_url |-> <<>>]

GenIdle == EbuildIdle /\ MetaIdle

NixIdle ==
    /\ nix_pc = "idle"
    /\ nix_deps = <<>>
    /\ archive_files = <<>>
    /\ sha256_cache = <<>>
    /\ packages = <<>>
    /\ derivation_read = [read |-> FALSE, name |-> <<>>, raised |-> FALSE,
                          derivation |-> <<>>]
    /\ calls = <<>>
    /\ downloads = <<>>
    /\ hashes = <<>>
    /\ src_sha256 = <<>>

ResIdle ==
    /\ res_pc = "idle"
    /\ res_id = <<>>
    /\ res_out = [targets |-> {}, consulted |-> FALSE, unresolved |-> {}]
    /\ res_deps = <<>>
    /\ res_pkg = <<>>

DrvInit ==
    /\ preserve_existing \in BOOLEAN
    /\ repo_version \in [Pkgs -> RawVersions]
    /\ table \in SUBSET DepIds
    /\ disk \in [Pkgs -> SUBSET EbuildNames]
    /\ disk0 = disk
    /\ i = 1
    /\ pc = "loop"
    /\ succeeded = 0
    /\ failed = 0
    /\ borkd_pkgs = <<>>
    /\ changes = <<>>
    /\ installers = <<>>
    /\ bad_installers = <<>>
    /\ outcome = [p \in Pkgs |-> "pending"]
    /\ constructed = {}
    /\ recipe_created = {}

DrvIdle ==
    /\ preserve_existing = FALSE
    /\ repo_version = <<>>
    /\ table = {}
    /\ disk = <<>>
    /\ disk0 = <<>>
    /\ i = 0
    /\ pc = "idle"
    /\ succeeded = 0
    /\ failed = 0
    /\ borkd_pkgs = <<>>
    /\ changes = <<>>
    /\ installers = <<>>
    /\ bad_installers = <<>>
    /\ outcome = <<>>
    /\ constructed = {}
    /\ recipe_created = {}

\* line 55: get_pkg_version raises (outside every try): the exception leaves
\* generate_installers
VersionRaises ==
    /\ pc = "loop" /\ i \in Pkgs /\ ~Version(i).ok
    /\ pc' = "aborted"
    /\ UNCHANGED <<preserve_existing, repo_version, table, disk, disk0, i, succeeded,
                   failed, borkd_pkgs, changes, installers, bad_installers, outcome,
                   constructed>>
    /\ UNCHANGED recipe_created
    /\ UNCHANGED not_drv_vars

\* lines 60-63
SkipUpToDate ==
    /\ AtPackage(i) /\ ShouldSkip(i)
    /\ succeeded' = succeeded + 1
    /\ outcome' = [outcome EXCEPT ![i] = "skipped"]
    /\ i' = i + 1
    /\ UNCHANGED <<preserve_existing, repo_version, table, disk, disk0, pc, failed,
                   borkd_pkgs, changes, installers, bad_installers, constructed>>
    /\ UNCHANGED recipe_created
    /\ UNCHANGED not_drv_vars

\* lines 65-67: overlay.remove_file raises (outside every try)
RemoveRaises ==
    /\ AtPackage(i) /\ ~ShouldSkip(i) /\ disk[i] # {}
    /\ pc' = "aborted"
    /\ UNCHANGED <<preserve_existing, repo_version, table, disk, disk0, i, succeeded,
                   failed, borkd_pkgs, changes, installers, bad_installers, outcome,
                   constructed>>
    /\ UNCHANGED recipe_created
    /\ UNCHANGED not_drv_vars

\* lines 68-74: gentoo_installer(...) raises
InstallerRaises ==
    /\ Regenerating(i)
    /\ \E d \in AfterRemove(i) :
          /\ disk' = d
    /\ failed' = failed + 1
    /\ outcome' = [outcome EXCEPT ![i] = "exception"]
    /\ i' = i + 1
    /\ UNCHANGED <<preserve_existing, repo_version, table, disk0, pc, succeeded,
                   borkd_pkgs, changes, installers, bad_installers, constructed>>
    /\ UNCHANGED recipe_created
    /\ UNCHANGED not_drv_vars

\* lines 75-87: ebuild_text() raises UnresolvedDependency
UnresolvedDeps ==
    /\ Regenerating(i)
    /\ \E d \in AfterRemove(i) :
          /\ disk' = d
    /\ Unmapped(i) # {}
    /\ constructed' = constructed \cup {i}
    /\ borkd_pkgs' = RecordUnresolved(borkd_pkgs, i, get_unresolved(i))
    /\ failed' = failed + 1
    /\ outcome' = [outcome EXCEPT ![i] = "unresolved"]
    /\ i' = i + 1
    /\ UNCHANGED <<preserve_existing, repo_version, table, disk0, pc, succeeded,
                   changes, installers, bad_installers>>
    /\ UNCHANGED recipe_created
    /\ UNCHANGED not_drv_vars

\* lines 88-93: ebuild_text() or metadata_text() raises KeyError
KeyErrorRaised ==
    /\ Regenerating(i)
    /\ \E d \in AfterRemove(i) :
          /\ disk' = d
    /\ constructed' = constructed \cup {i}
    /\ failed' = failed + 1
    /\ outcome' = [outcome EXCEPT ![i] = "keyerror"]
    /\ i' = i + 1
    /\ UNCHANGED <<preserve_existing, repo_version, table, disk0, pc, succeeded,
                   borkd_pkgs, changes, installers, bad_installers>>
    /\ UNCHANGED recipe_created
    /\ UNCHANGED not_drv_vars

\* lines 94-104: both texts rendered, both files written
WriteOk ==
    /\ Regenerating(i)
    /\ \E d \in AfterRemove(i) :
          /\ disk' = [d EXCEPT ![i] = d[i] \cup {Version(i).val}]
    /\ Unmapped(i) = {}
    /\ recipe_created' = recipe_created \cup {i}
    /\ constructed' = constructed \cup {i}
    /\ succeeded' = succeeded + 1
    /\ changes' = Append(changes, <<i, Version(i).val>>)
    /\ outcome' = [outcome EXCEPT ![i] = "succeeded"]
    /\ i' = i + 1
    /\ UNCHANGED <<preserve_existing, repo_version, table, disk0, pc, failed,
                   borkd_pkgs, installers, bad_installers>>
    /\ UNCHANGED not_drv_vars

\* lines 94-111: both texts rendered, then open() or write() raises; open(.., "w")
\* of the recipe file may already have created it (created)
WriteFails ==
    /\ Regenerating(i)
    /\ \E d \in AfterRemove(i), created \in BOOLEAN :
          /\ disk' = IF created
                     THEN [d EXCEPT ![i] = d[i] \cup {Version(i).val}]
                     ELSE d
          /\ recipe_created' = IF created THEN recipe_created \cup {i}
                               ELSE recipe_created
    /\ Unmapped(i) = {}
    /\ constructed' = constructed \cup {i}
    /\ succeeded' = succeeded + 1
    /\ installers' = Append(installers, i)
    /\ bad_installers' = Append(bad_installers, i)
    /\ failed' = failed + 1
    /\ outcome' = [outcome EXCEPT ![i] = "write_error"]
    /\ i' = i + 1
    /\ UNCHANGED <<preserve_existing, repo_version, table, disk0, pc, borkd_pkgs,
                   changes>>
    /\ UNCHANGED not_drv_vars

\* lines 113-122: the loop is over, the summary is printed and returned
Return ==
    /\ pc = "loop" /\ i = NPkgs + 1
    /\ pc' = "done"
    /\ UNCHANGED <<preserve_existing, repo_version, table, disk, disk0, i, succeeded,
                   failed, borkd_pkgs, changes, installers, bad_installers, outcome,
                   constructed>>
    /\ UNCHANGED recipe_created
    /\ UNCHANGED not_drv_vars

Init == DrvInit /\ VerIdle /\ GenIdle /\ NixIdle /\ ResIdle

Next ==
    \/ VersionRaises
    \/ SkipUpToDate
    \/ RemoveRaises
    \/ InstallerRaises
    \/ UnresolvedDeps
    \/ KeyErrorRaised
    \/ WriteOk
    \/ WriteFails
    \/ Return

Spec == Init /\ [][Next]_vars

-----------------------------------------------------------------------------
(* get_pkg_version applied to every short version string *)

VerChars == {"0", "1", "4", "-"}

RECURSIVE SeqsUpTo(_, _)
SeqsUpTo(S, n) ==
    IF n = 0 THEN { <<>> }
    ELSE LET shorter == SeqsUpTo(S, n - 1) IN
         shorter \cup { Append(t, c) : t \in shorter, c \in S }

VerInit ==
    /\ ver_in \in SeqsUpTo(VerChars, MaxVerLen)
                    \cup { <<"1", ".", "2", ".", "3", "-", "0">>,
                           <<"1", ".", "2", ".", "3", "-", "4">> }
    /\ ver_pc = "call"
    /\ ver_out = [ok |-> FALSE, val |-> <<>>]

CallGetPkgVersion ==
    /\ ver_pc = "call"
    /\ ver_pc' = "returned"
    /\ ver_out' = get_pkg_version(ver_in)
    /\ UNCHANGED ver_in
    /\ UNCHANGED not_ver_vars

InitVersion == DrvIdle /\ VerInit /\ GenIdle /\ NixIdle /\ ResIdle

NextVersion == CallGetPkgVersion

SpecVersion == InitVersion /\ [][NextVersion]_vars

-----------------------------------------------------------------------------
(* _gen_ebuild_for_package: the description of the recipe *)

\* Characters are code points. A description of length n with backticks at the
\* places in ticks and a letter that depends on the place elsewhere.
MakeDescription(n, ticks) ==
    [k \in 1 .. n |-> IF k \in ticks THEN Backtick ELSE 97 + (k % 26)]

DescLens == {0, MaxDescription - 1, MaxDescription, MaxDescription + 1, DescLen}

TickSets ==
    (SUBSET {1, 40, MaxDescription, MaxDescription + 1, DescLen})
        \cup { 1 .. 40, 1 .. 41, 41 .. DescLen, (MaxDescription + 1) .. DescLen,
               1 .. DescLen }

Descriptions == { MakeDescription(n, t \cap (1 .. n)) : n \in DescLens, t \in TickSets }

\* line 195: description.replace('`', "")
RemoveBackticks(s) == SelectSeq(s, LAMBDA c : c # Backtick)

\* lines 196-197: if len(description) > 80: description = description[:80]
Truncate(s) == IF Len(s) > MaxDescription THEN SubSeq(s, 1, MaxDescription) ELSE s

\* (the variant cuts the text before it removes the backticks)
RenderDescription_truncates_first(s) == RemoveBackticks(Truncate(s))

\* lines 193-197, for a description that is a str
RenderDescription(s) == Truncate(RemoveBackticks(s))

GenInit ==
    /\ gen_pc = "call"
    /\ gen_manifest = "none"
    /\ pkg_description \in Descriptions
    /\ pkg_ebuild = [has_description |-> FALSE, description |-> <<>>]

\* lines 185-189: get_package_xml raises; the Ebuild is returned as it is
GenEbuildFetchFails ==
    /\ gen_pc = "call"
    /\ gen_pc' = "returned"
    /\ gen_manifest' = "fetch_failed"
    /\ UNCHANGED <<pkg_description, pkg_ebuild>>
    /\ UNCHANGED meta_vars
    /\ UNCHANGED not_gen_vars

\* line 190: xmltodict.parse raises on a manifest that is not well-formed XML;
\* the call is in no try block and the exception leaves the function
GenEbuildParseFails ==
    /\ gen_pc = "call"
    /\ gen_pc' = "raised"
    /\ gen_manifest' = "parse_failed"
    /\ UNCHANGED <<pkg_description, pkg_ebuild>>
    /\ UNCHANGED meta_vars
    /\ UNCHANGED not_gen_vars

\* lines 190-218: the manifest is fetched and parsed
GenEbuildFetched ==
    /\ gen_pc = "call"
    /\ gen_pc' = "returned"
    /\ gen_manifest' = "fetched"
    /\ pkg_ebuild' = [has_description |-> TRUE,
                      description |-> RenderDescription(pkg_description)]
    /\ UNCHANGED pkg_description
    /\ UNCHANGED meta_vars
    /\ UNCHANGED not_gen_vars

-----------------------------------------------------------------------------
(* _gen_metadata_for_package *)

\* a <maintainer> element as xmltodict gives it: the email attribute under
\* '@email' and the text of the element, if it has any, under '#text'
Emails == { "ann@x.org", "bob@x.org" }
DisplayNames == { "Ann", "Bob" }

MaintainerMappings ==
    { [email |-> e, has_text |-> TRUE, text |-> n] : e \in Emails, n \in DisplayNames }
        \cup { [email |-> e, has_text |-> FALSE, text |-> ""] : e \in Emails }

\* the manifests: none, one or several <maintainer> elements. xmltodict.parse
\* leaves the key out for none, gives the mapping itself for one element and a
\* list of mappings for several.
Maintainers ==
    UNION { [1 .. n -> MaintainerMappings] : n \in 0 .. MaxMaintainers }

\* line 134: isinstance(pkg_fields['package']['maintainer'], list)
IsMaintainerList(m) == Len(m) >= 2

\* lines 135-136 and 141-145: the maintainer that is used
FirstMaintainer(m) == m[1]

\* line 136: ['#text'] of a mapping that has no text raises KeyError. (Line 137
\* is False for every manifest, '@email' being a str, so lines 138-139 never run.)
MaintainerRaises(m) ==
    /\ Len(m) > 0
    /\ IsMaintainerList(m)
    /\ ~FirstMaintainer(m).has_text

\* lines 136 and 142-145
upstream_name(m) ==
    IF IsMaintainerList(m) THEN FirstMaintainer(m).text
    ELSE IF FirstMaintainer(m).has_text THEN FirstMaintainer(m).text
    ELSE "UNKNOWN"

\* repo.url in pieces, "-release" and ".git" each a piece of its own
RepoUrls ==
    { <<"https://h/o/r", "-release", ".git">>, <<"https://h/o/r", ".git">> }

\* line 147: repo.url.replace("-release", "").replace(".git", "/issues")
upstream_bug_url(url) ==
    LET kept == SelectSeq(url, LAMBDA piece : piece # "-release")
    IN  [k \in DOMAIN kept |-> IF kept[k] = ".git" THEN "/issues" ELSE kept[k]]

\* line 125: metadata_xml(), no field set
NewMetadataXml ==
    [upstream_email |-> "", upstream_name |-> "", upstream_bug_url |-> <<>>]

MetaInit ==
    /\ meta_pc = "call"
    /\ meta_manifest = "none"
    /\ maintainer \in Maintainers
    /\ repo_url \in RepoUrls
    /\ pkg_metadata_xml = NewMetadataXml

\* lines 126-130: get_package_xml raises; the new metadata_xml is returned
GenMetadataFetchFails ==
    /\ meta_pc = "call"
    /\ meta_pc' = "returned"
    /\ meta_manifest' = "fetch_failed"
    /\ pkg_metadata_xml' = NewMetadataXml
    /\ UNCHANGED <<maintainer, repo_url>>
    /\ UNCHANGED ebuild_vars
    /\ UNCHANGED not_gen_vars

\* line 131: xmltodict.parse raises on a manifest that is not well-formed XML;
\* the call is in no try block and the exception leaves the function
GenMetadataParseFails ==
    /\ meta_pc = "call"
    /\ meta_pc' = "raised"
    /\ meta_manifest' = "parse_failed"
    /\ UNCHANGED <<maintainer, repo_url, pkg_metadata_xml>>
    /\ UNCHANGED ebuild_vars
    /\ UNCHANGED not_gen_vars

\* lines 131-152: the manifest is fetched and parsed
GenMetadataFetched ==
    /\ meta_pc = "call"
    /\ meta_manifest' = "fetched"
    /\ IF MaintainerRaises(maintainer)
       THEN /\ meta_pc' = "raised"
            /\ UNCHANGED pkg_metadata_xml
       ELSE /\ meta_pc' = "returned"
            /\ pkg_metadata_xml' =
                  IF Len(maintainer) = 0
                  THEN [NewMetadataXml EXCEPT
                           !.upstream_bug_url = upstream_bug_url(repo_url)]
                  ELSE [upstream_email |-> FirstMaintainer(maintainer).email,
                        upstream_name |-> upstream_name(maintainer),
                        upstream_bug_url |-> upstream_bug_url(repo_url)]
    /\ UNCHANGED <<maintainer, repo_url>>
    /\ UNCHANGED ebuild_vars
    /\ UNCHANGED not_gen_vars

\* gentoo_installer.__init__ (lines 221-231) calls both; here one call of either
InitEbuild ==
    /\ DrvIdle /\ VerIdle /\ NixIdle /\ ResIdle
    /\ \/ GenInit /\ MetaIdle
       \/ EbuildIdle /\ MetaInit

NextEbuild ==
    \/ GenEbuildFetchFails
    \/ GenEbuildParseFails
    \/ GenEbuildFetched
    \/ GenMetadataFetchFails
    \/ GenMetadataParseFails
    \/ GenMetadataFetched

SpecEbuild == InitEbuild /\ [][NextEbuild]_vars

-----------------------------------------------------------------------------
(* NixPackage *)

\* NixPackage.normalize_name: name.replace('_', '-')
normalize_name(name) == [k \in DOMAIN name |-> IF name[k] = "_" THEN "-" ELSE name[k]]

\* the packages NixPackage is called for: "a_b" and "c"
NixNames == { <<"a", "_", "b">>, <<"c">> }

\* the all_pkgs argument: the packages of the distribution, "my_ros_pkg" among them
all_pkgs == NixNames \cup { <<"m", "y", "_", "r", "o", "s", "_", "p", "k", "g">> }

\* lines 42-44: os.path.join(tar_dir, '<normalized name>-<version>-<distro>.tar.gz'),
\* for version 1 of distribution d
archive_path(name) == normalize_name(name) \o <<"-", "1", "-", "d">>

Paths == { archive_path(n) : n \in NixNames }

NoFile == "no file"
Contents == {"tar1", "tar2"}

\* hashlib.sha256(content).hexdigest()
Sha256(content) == IF content = "tar1" THEN "5f1e" ELSE "c07a"

\* a digest an earlier run left in sha256_cache
StaleDigest == "0000"

\* resolve_dep(d, 'nix')[0]: the rosdep table maps "x" to X and Y, "y" to Y and
\* nothing else; it raises UnresolvedDependency for an identifier it has no
\* mapping for
NixTable(d) ==
    IF d = <<"x">> THEN { <<"X">>, <<"Y">> }
    ELSE IF d = <<"y">> THEN { <<"Y">> }
    ELSE {}

resolve_dep_raises(d) == NixTable(d) = {}

\* what DependencyWalker.get_depends may give for a package, per category
NoDeps ==
    [buildtool |-> {}, buildtool_export |-> {}, build |-> {}, build_export |-> {},
     exec |-> {}, test |-> {}]

DepInputs ==
    { NoDeps,
      [buildtool |-> { <<"y">> }, buildtool_export |-> {},
       build |-> { <<"x">>, <<"a", "_", "b">> }, build_export |-> {},
       exec |-> { <<"y">> }, test |-> { <<"x">> }],
      [buildtool |-> {}, buildtool_export |-> { <<"w">> },
       build |-> { <<"x">>, <<"u", "_", "v">> }, build_export |-> {},
       exec |-> { <<"c">> }, test |-> { <<"u", "_", "v">>, <<"y">> }],
      [buildtool |-> { <<"u", "_", "v">> }, buildtool_export |-> {},
       build |-> { <<"y">> }, build_export |-> { <<"w">> },
       exec |-> { <<"z">>, <<"y">> }, test |-> {}] }

\* lines 123-130: _resolve_dependency, the identifiers d resolves to
\* (the variant asks the table about every identifier)
_resolve_dependency_table_only(d) ==
    IF resolve_dep_raises(d) THEN {} ELSE NixTable(d)

_resolve_dependency(d) ==
    IF d \in all_pkgs THEN { normalize_name(d) }
    ELSE IF resolve_dep_raises(d) THEN {}
    ELSE NixTable(d)

\* lines 125-127: resolve_dep is called only for an identifier not in all_pkgs
ConsultsTable(d) == d \notin all_pkgs

\* lines 128-129: the identifiers of deps added to unresolved_dependencies
\* (the variant returns the empty tuple without recording the identifier)
Unresolved_not_recorded(deps) == {}

Unresolved(deps) == { d \in deps : d \notin all_pkgs /\ resolve_dep_raises(d) }

\* lines 119-121: _resolve_dependencies
_resolve_dependencies(deps) == UNION { _resolve_dependency(d) : d \in deps }

\* lines 83-117: the object __init__ leaves, given the dependencies and the digest
\* (the first variant leaves out line 101, the second keeps one
\* unresolved_dependencies set for all the objects)
NewNixPackage_keeps_build_inputs_in_check(deps, digest) ==
    LET exported   == deps.exec \cup deps.build_export \cup deps.buildtool_export
        propagated == _resolve_dependencies(exported)
        build      == _resolve_dependencies(deps.build) \ propagated
        check      == _resolve_dependencies(deps.test)
        native     == _resolve_dependencies(deps.buildtool)
    IN  [built |-> TRUE,
         unresolved_dependencies |->
             Unresolved(deps.build) \cup Unresolved(exported)
                 \cup Unresolved(deps.test) \cup Unresolved(deps.buildtool),
         derivation |-> [src_sha256 |-> digest,
                         build_inputs |-> build,
                         propagated_build_inputs |-> propagated,
                         check_inputs |-> check,
                         native_build_inputs |-> native]]

NewNixPackage_shared_unresolved(deps, digest) ==
    LET exported   == deps.exec \cup deps.build_export \cup deps.buildtool_export
        propagated == _resolve_dependencies(exported)
        build      == _resolve_dependencies(deps.build) \ propagated
        check      == _resolve_dependencies(deps.test) \ build
        native     == _resolve_dependencies(deps.buildtool)
    IN  [built |-> TRUE,
         unresolved_dependencies |->
             UNION { packages[n].unresolved_dependencies : n \in DOMAIN packages }
                 \cup Unresolved(deps.build) \cup Unresolved(exported)
                 \cup Unresolved(deps.test) \cup Unresolved(deps.buildtool),
         derivation |-> [src_sha256 |-> digest,
                         build_inputs |-> build,
                         propagated_build_inputs |-> propagated,
                         check_inputs |-> check,
                         native_build_inputs |-> native]]

NewNixPackage(deps, digest) ==
    LET exported   == deps.exec \cup deps.build_export \cup deps.buildtool_export
        propagated == _resolve_dependencies(exported)
        build      == _resolve_dependencies(deps.build) \ propagated
        check      == _resolve_dependencies(deps.test) \ build
        native     == _resolve_dependencies(deps.buildtool)
    IN  [built |-> TRUE,
         unresolved_dependencies |->
             Unresolved(deps.build) \cup Unresolved(exported)
                 \cup Unresolved(deps.test) \cup Unresolved(deps.buildtool),
         derivation |-> [src_sha256 |-> digest,
                         build_inputs |-> build,
                         propagated_build_inputs |-> propagated,
                         check_inputs |-> check,
                         native_build_inputs |-> native]]

NoPackage ==
    [built |-> FALSE, unresolved_dependencies |-> {},
     derivation |-> [src_sha256 |-> "", build_inputs |-> {},
                     propagated_build_inputs |-> {}, check_inputs |-> {},
                     native_build_inputs |-> {}]]

\* line 47: os.path.exists(archive_path)
\* (the variant never finds the archive)
ArchiveCached_never(path) == FALSE

ArchiveCached(path) == archive_files[path] # NoFile

\* line 57: downloaded_archive or archive_path not in sha256_cache
\* (the first variant hashes the archive every time, the second only when the
\* path has no digest yet)
MustHash_always(downloaded_archive, path) == TRUE

MustHash_only_when_not_cached(downloaded_archive, path) ==
    path \notin DOMAIN sha256_cache

MustHash(downloaded_archive, path) ==
    downloaded_archive \/ path \notin DOMAIN sha256_cache

\* lines 144-146: the derivation property raises UnresolvedDependency
\* (the variant hands the derivation out unchecked)
DerivationRaises_never(pkg) == FALSE

DerivationRaises(pkg) == pkg.unresolved_dependencies # {}

NixInit ==
    /\ nix_pc = "run"
    /\ nix_deps \in [NixNames -> DepInputs]
    /\ archive_files \in [Paths -> {NoFile, "tar1"}]
    /\ sha256_cache \in UNION { [S -> {StaleDigest}] : S \in SUBSET Paths }
    /\ packages = [n \in NixNames |-> NoPackage]
    /\ derivation_read = [read |-> FALSE, name |-> <<>>, raised |-> FALSE,
                          derivation |-> NoPackage.derivation]
    /\ calls = [n \in NixNames |-> 0]
    /\ downloads = [p \in Paths |-> 0]
    /\ hashes = [p \in Paths |-> 0]
    /\ src_sha256 = [p \in Paths |-> ""]

\* lines 46-60 of __init__ for package name, when download_file (if it is called)
\* stores content: the files, the cache and the histories afterwards
ArchiveStep(name, content) ==
    LET path       == archive_path(name)
        downloaded == ~ArchiveCached(path)
        files      == IF downloaded THEN [archive_files EXCEPT ![path] = content]
                      ELSE archive_files
        hashed     == MustHash(downloaded, path)
        cache      == IF hashed
                      THEN [q \in DOMAIN sha256_cache \cup {path} |->
                               IF q = path THEN Sha256(files[path])
                               ELSE sha256_cache[q]]
                      ELSE sha256_cache
    IN  /\ archive_files' = files
        /\ sha256_cache' = cache
        /\ downloads' = IF downloaded THEN [downloads EXCEPT ![path] = @ + 1]
                        ELSE downloads
        /\ hashes' = IF hashed THEN [hashes EXCEPT ![path] = @ + 1] ELSE hashes
        /\ src_sha256' = [src_sha256 EXCEPT ![path] = cache[path]]

\* NixPackage(name, ...) runs to its end
NixPackageInit ==
    /\ nix_pc = "run"
    /\ \E name \in NixNames, content \in Contents :
          /\ calls[name] < MaxCalls
          /\ calls' = [calls EXCEPT ![name] = @ + 1]
          /\ ArchiveStep(name, content)
          /\ packages' = [packages EXCEPT ![name] =
                             NewNixPackage(nix_deps[name],
                                           sha256_cache'[archive_path(name)])]
    /\ UNCHANGED <<nix_pc, nix_deps, derivation_read>>
    /\ UNCHANGED not_nix_vars

\* lines 52-54: download_file fails on every retry; the exception leaves __init__
NixPackageDownloadFails ==
    /\ nix_pc = "run"
    /\ \E name \in NixNames :
          /\ calls[name] < MaxCalls
          /\ calls' = [calls EXCEPT ![name] = @ + 1]
          /\ ~ArchiveCached(archive_path(name))
          /\ downloads' = [downloads EXCEPT ![archive_path(name)] = @ + 1]
    /\ UNCHANGED <<nix_pc, nix_deps, archive_files, sha256_cache, packages,
                   derivation_read, hashes, src_sha256>>
    /\ UNCHANGED not_nix_vars

\* lines 62-77: the archive cannot be read, or the manifest neither extracted nor
\* fetched nor parsed; the exception leaves __init__ after the digest was stored
NixPackageManifestFails ==
    /\ nix_pc = "run"
    /\ \E name \in NixNames, content \in Contents :
          /\ calls[name] < MaxCalls
          /\ calls' = [calls EXCEPT ![name] = @ + 1]
          /\ ArchiveStep(name, content)
    /\ UNCHANGED <<nix_pc, nix_deps, packages, derivation_read>>
    /\ UNCHANGED not_nix_vars

\* lines 143-148: the derivation property of a constructed NixPackage is read
ReadDerivation ==
    /\ nix_pc = "run"
    /\ \E name \in NixNames :
          /\ packages[name].built
          /\ derivation_read' =
                IF DerivationRaises(packages[name])
                THEN [read |-> TRUE, name |-> name, raised |-> TRUE,
                      derivation |-> NoPackage.derivation]
                ELSE [read |-> TRUE, name |-> name, raised |-> FALSE,
                      derivation |-> packages[name].derivation]
    /\ UNCHANGED <<nix_pc, nix_deps, archive_files, sha256_cache, packages, calls,
                   downloads, hashes, src_sha256>>
    /\ UNCHANGED not_nix_vars

InitNix == DrvIdle /\ VerIdle /\ GenIdle /\ NixInit /\ ResIdle

NextNix ==
    \/ NixPackageInit
    \/ NixPackageDownloadFails
    \/ NixPackageManifestFails
    \/ ReadDerivation

SpecNix == InitNix /\ [][NextNix]_vars

-----------------------------------------------------------------------------
(* NixPackage: the resolution of dependencies, for many dependency sets *)

\* upstream identifiers: two packages of the distribution, two the table maps,
\* two it does not
ResIds == all_pkgs \cup { <<"x">>, <<"y">>, <<"u", "_", "v">>, <<"w">> }

DepChoices == SUBSET { <<"a", "_", "b">>, <<"x">>, <<"y">>, <<"u", "_", "v">> }

ResDepInputs ==
    { [buildtool |-> bt, buildtool_export |-> bte, build |-> b, build_export |-> be,
       exec |-> e, test |-> t] :
        b \in DepChoices, e \in DepChoices, t \in DepChoices,
        be \in { {}, { <<"x">> } },
        bte \in { {}, { <<"w">> } },
        bt \in { {}, { <<"y">> }, { <<"u", "_", "v">> } } }

ResInit ==
    /\ res_out = [targets |-> {}, consulted |-> FALSE, unresolved |-> {}]
    /\ res_pkg = NoPackage
    /\ \/ res_pc = "one" /\ res_id \in ResIds /\ res_deps = NoDeps
       \/ res_pc = "all" /\ res_id = <<>> /\ res_deps \in ResDepInputs

\* lines 123-130: one call of _resolve_dependency on a fresh NixPackage
ResolveDependency ==
    /\ res_pc = "one"
    /\ res_pc' = "resolved"
    /\ res_out' = [targets |-> _resolve_dependency(res_id),
                   consulted |-> ConsultsTable(res_id),
                   unresolved |-> Unresolved({res_id})]
    /\ UNCHANGED <<res_id, res_deps, res_pkg>>
    /\ UNCHANGED not_res_vars

\* lines 83-117: the dependencies of a package are resolved and the derivation
\* is assembled
AssembleDerivation ==
    /\ res_pc = "all"
    /\ res_pc' = "assembled"
    /\ res_pkg' = NewNixPackage(res_deps, "")
    /\ UNCHANGED <<res_id, res_out, res_deps>>
    /\ UNCHANGED not_res_vars

InitResolve == DrvIdle /\ VerIdle /\ GenIdle /\ NixIdle /\ ResInit

NextResolve ==
    \/ ResolveDependency
    \/ AssembleDerivation

SpecResolve == InitResolve /\ [][NextResolve]_vars

-----------------------------------------------------------------------------
(* Claims about generate_installers (Spec) *)

\* the recipe file of the version the distribution carries lies on disk
UpToDateOnDisk(p) ==
    /\ get_pkg_version(repo_version[p]).ok
    /\ get_pkg_version(repo_version[p]).val \in disk[p]

\* borkd_pkgs lists exactly the identifiers of p the resolver cannot map
ListsUnmapped(p) ==
    /\ p \in DOMAIN borkd_pkgs
    /\ Range(borkd_pkgs[p]) = Unmapped(p)
    /\ Len(borkd_pkgs[p]) = Cardinality(Unmapped(p))

\* C1: when the loop reaches a package whose recipe file of the current version
\* exists and preserve_existing is true, the step it takes removes and writes no
\* file, constructs no gentoo_installer, and adds one to succeeded (and nothing to
\* failed, borkd_pkgs or changes).
C1_SkipUpToDate ==
    [][ (pc = "loop" /\ i \in Pkgs /\ preserve_existing /\ UpToDateOnDisk(i))
        => /\ disk' = disk
           /\ constructed' = constructed
           /\ succeeded' = succeeded + 1
           /\ failed' = failed
           /\ borkd_pkgs' = borkd_pkgs
           /\ changes' = changes
           /\ i' = i + 1 /\ pc' = "loop" ]_vars

C1_Witness ==
    /\ pc = "done"
    /\ \E p \in Pkgs : outcome[p] = "skipped" /\ disk[p] = EbuildNames
    /\ succeeded = NPkgs

\* C2 as stated: when generate_installers returns, every package with an
\* identifier the resolver cannot map is a key of borkd_pkgs, with exactly those
\* identifiers as its value.
C2_EveryUnmappedPackageListed ==
    pc = "done" => \A p \in Pkgs : Unmapped(p) # {} => ListsUnmapped(p)

\* C2 amended: the packages whose rendering raised UnresolvedDependency (they were
\* not skipped and their gentoo_installer was constructed) are exactly the keys of
\* borkd_pkgs, each with exactly its unmapped identifiers as value; this holds from
\* the moment the package is processed on, and so when generate_installers returns.
C2_RenderedUnmappedPackageListed ==
    pc \in {"loop", "done", "aborted"} =>
        \A p \in Pkgs :
            /\ outcome[p] = "unresolved" => (Unmapped(p) # {} /\ ListsUnmapped(p))
            /\ p \in DOMAIN borkd_pkgs => outcome[p] = "unresolved"

C2_Witness ==
    /\ pc = "done"
    /\ \E p \in Pkgs : outcome[p] = "unresolved" /\ Len(borkd_pkgs[p]) = 2
    /\ \E p \in Pkgs : outcome[p] = "skipped" /\ Unmapped(p) # {}

\* C3: after generate_installers returns, no recipe file exists for a package
\* whose rendering found an identifier the resolver cannot map, whatever recipe
\* files of the package existed before the run.
C3_NoRecipeOfUnmappedPackage ==
    pc = "done" =>
        \A p \in Pkgs : (Unmapped(p) # {} /\ outcome[p] = "unresolved") => disk[p] = {}

\* the package was regenerated: it was not skipped and its version was read
Regenerated(p) == outcome[p] \notin {"pending", "skipped"}

\* C14: after generate_installers returns, a package that was regenerated has at
\* most one recipe file, however many it had before the run: the files it had
\* were all removed before the new one was written.
C14_AtMostOneRecipeAfterRegeneration ==
    pc = "done" =>
        \A p \in Pkgs :
            Regenerated(p) =>
                /\ Cardinality(disk[p]) <= 1
                /\ disk[p] \subseteq {Version(p).val}

\* C5: a package whose recipe or sidecar file cannot be written is counted as
\* failed and not as succeeded, and the loop goes on to the next package.
C5_WriteFailureNotCountedAsSuccess ==
    [][ (pc = "loop" /\ i \in Pkgs /\ outcome'[i] = "write_error")
        => (succeeded' = succeeded /\ failed' = failed + 1 /\ i' = i + 1) ]_vars

\* C6: no error raised while processing one package leaves generate_installers:
\* the run is never ended by an exception.
C6_NoErrorCrossesPackageBoundary == pc # "aborted"

\* C19: after every iteration of the loop succeeded + failed is the number of
\* packages gone through, and so the number of packages of the distribution
\* when generate_installers returns.
C19_EveryPackageCountedOnce ==
    pc \in {"loop", "done"} => succeeded + failed = i - 1

InChanges(p) == \E k \in DOMAIN changes : changes[k][1] = p

\* C20: when generate_installers returns, changes has an entry for a package
\* exactly if the recipe file of the package was created in this run; a package
\* that was skipped or that failed has no entry and no recipe file created.
C20_ChangesIffRecipeCreated ==
    pc = "done" =>
        \A p \in Pkgs :
            /\ InChanges(p) <=> p \in recipe_created
            /\ outcome[p] # "succeeded" => ~InChanges(p) /\ p \notin recipe_created

-----------------------------------------------------------------------------
(* Claims about get_pkg_version (SpecVersion) *)

Dashes(s) == {k \in DOMAIN s : s[k] = "-"}

\* C9: a version '<maj.min.patch>-<inc>' (one dash) is rendered as <maj.min.patch>
\* when inc is '0' and as <maj.min.patch>-r<inc> otherwise; "1.2.3-0" gives
\* "1.2.3" and "1.2.3-4" gives "1.2.3-r4".
C9_VersionRendering ==
    ver_pc = "returned" =>
        /\ Cardinality(Dashes(ver_in)) = 1 =>
              LET k   == CHOOSE d \in Dashes(ver_in) : TRUE
                  mmp == SubSeq(ver_in, 1, k - 1)
                  inc == SubSeq(ver_in, k + 1, Len(ver_in))
              IN  /\ ver_out.ok
                  /\ inc = <<"0">> => ver_out.val = mmp
                  /\ inc # <<"0">> => ver_out.val = mmp \o <<"-", "r">> \o inc
        /\ ver_in = <<"1", ".", "2", ".", "3", "-", "0">>
              => ver_out.val = <<"1", ".", "2", ".", "3">>
        /\ ver_in = <<"1", ".", "2", ".", "3", "-", "4">>
              => ver_out.val = <<"1", ".", "2", ".", "3", "-", "r", "4">>

C9_Witness ==
    /\ ver_pc = "returned"
    /\ ver_in = <<"1", ".", "2", ".", "3", "-", "0">>
    /\ ver_out = [ok |-> TRUE, val |-> <<"1", ".", "2", ".", "3">>]

-----------------------------------------------------------------------------
(* Claims about _gen_ebuild_for_package (SpecEbuild) *)

Min(a, b) == IF a < b THEN a ELSE b

Rendered == gen_pc = "returned" /\ pkg_ebuild.has_description

\* the number of backticks among the first k characters of s
TicksUpTo(s, k) == Cardinality({m \in 1 .. k : s[m] = Backtick})

\* C10 as stated: a description of 120 characters is rendered as its first 80
\* characters, the backticks among them removed.
C10_First80OfInput ==
    (Rendered /\ Len(pkg_description) = DescLen) =>
        LET first == SubSeq(pkg_description, 1, MaxDescription) IN
        /\ Len(pkg_ebuild.description) = MaxDescription - TicksUpTo(first, MaxDescription)
        /\ \A k \in 1 .. MaxDescription :
              first[k] # Backtick =>
                  pkg_ebuild.description[k - TicksUpTo(first, k)] = first[k]

\* C10 amended: the backticks are removed first, wherever they are, and the
\* result is cut to 80 characters: the rendered description holds no backtick,
\* its length is the smaller of 80 and the number of other characters, and its
\* r-th character is the r-th character of the input that is no backtick.
C10_First80OfBacktickFreeInput ==
    Rendered =>
        LET n == Len(pkg_description)
            out == pkg_ebuild.description
        IN  /\ Len(out) = Min(MaxDescription, n - TicksUpTo(pkg_description, n))
            /\ \A r \in DOMAIN out : out[r] # Backtick
            /\ \A k \in 1 .. n :
                  LET r == k - TicksUpTo(pkg_description, k) IN
                  (pkg_description[k] # Backtick /\ r <= MaxDescription)
                      => out[r] = pkg_description[k]

\* a 120-character description with a backtick in front of the cap and one
\* behind it: place 81 of the input is rendered
C10_Witness ==
    /\ Rendered
    /\ Len(pkg_description) = DescLen
    /\ pkg_description[1] = Backtick
    /\ pkg_description[DescLen] = Backtick
    /\ Len(pkg_ebuild.description) = MaxDescription
    /\ pkg_ebuild.description[MaxDescription] = pkg_description[MaxDescription + 1]

\* C16: when get_package_xml raises or the fetched manifest cannot be parsed,
\* _gen_ebuild_for_package and _gen_metadata_for_package return the object they
\* made, its manifest fields not set, and raise nothing.
C16_FetchOrParseFailureReturnsDefaults ==
    /\ gen_manifest \in {"fetch_failed", "parse_failed"}
          => gen_pc = "returned" /\ ~pkg_ebuild.has_description
    /\ meta_manifest \in {"fetch_failed", "parse_failed"}
          => meta_pc = "returned" /\ pkg_metadata_xml = NewMetadataXml

\* C17: _gen_metadata_for_package returns for every manifest that is fetched and
\* parsed: with one <maintainer> its email and its text are used, with several
\* those of the first, and the name of a maintainer that has no text is "UNKNOWN".
C17_EveryMaintainerShapeHandled ==
    (meta_manifest = "fetched" /\ Len(maintainer) > 0) =>
        /\ meta_pc = "returned"
        /\ pkg_metadata_xml.upstream_email = maintainer[1].email
        /\ pkg_metadata_xml.upstream_name =
              IF maintainer[1].has_text THEN maintainer[1].text ELSE "UNKNOWN"

-----------------------------------------------------------------------------
(* Claims about NixPackage (SpecNix) *)

AllDeps(name) ==
    nix_deps[name].buildtool \cup nix_deps[name].buildtool_export
        \cup nix_deps[name].build \cup nix_deps[name].build_export
        \cup nix_deps[name].exec \cup nix_deps[name].test

\* the dependencies of a package that are no package of the distribution and
\* that the table does not map
Unmappable(name) == { d \in AllDeps(name) : d \notin NixNames /\ NixTable(d) = {} }

\* C4: reading the derivation property of a NixPackage raises
\* UnresolvedDependency exactly when one of its dependencies could not be
\* resolved (unresolved_dependencies is not empty), and returns the assembled
\* derivation otherwise.
C4_DerivationOnlyWhenResolved ==
    derivation_read.read =>
        LET pkg == packages[derivation_read.name] IN
        /\ derivation_read.raised <=> Unmappable(derivation_read.name) # {}
        /\ derivation_read.raised <=> pkg.unresolved_dependencies # {}
        /\ ~derivation_read.raised => derivation_read.derivation = pkg.derivation

C4_Witness ==
    /\ derivation_read.read
    /\ derivation_read.raised
    /\ Cardinality(packages[derivation_read.name].unresolved_dependencies) = 2

\* C7: a NixPackage call for a package whose archive file is present calls the
\* downloader for no path, and the digest it obtains is the one the call before
\* it obtained for that path.
C7_CachedArchiveIdempotent ==
    [][ \A name \in NixNames :
          LET path == archive_path(name) IN
          (nix_pc = "run" /\ archive_files[path] # NoFile
              /\ calls'[name] = calls[name] + 1)
          => /\ downloads' = downloads
             /\ archive_files' = archive_files
             /\ src_sha256[path] # "" => src_sha256'[path] = src_sha256[path] ]_vars

\* two calls for "c", the archive present from the start: no download, one digest
C7_Witness ==
    /\ nix_pc = "run"
    /\ calls[<<"c">>] = 2
    /\ downloads[archive_path(<<"c">>)] = 0
    /\ packages[<<"c">>].built
    /\ packages[<<"c">>].derivation.src_sha256 = Sha256("tar1")
    /\ src_sha256[archive_path(<<"c">>)] = Sha256("tar1")

\* C8: once the digest of an archive path was computed in this run, no step
\* computes it again or changes its entry in sha256_cache.
C8_HashCacheAppendOnly ==
    [][ \A path \in Paths :
          (nix_pc = "run" /\ hashes[path] > 0)
          => /\ hashes'[path] = hashes[path]
             /\ path \in DOMAIN sha256_cache'
             /\ sha256_cache'[path] = sha256_cache[path] ]_vars

\* two calls for "a_b", the first downloads the archive and computes the digest
C8_Witness ==
    /\ nix_pc = "run"
    /\ calls[<<"a", "_", "b">>] = 2
    /\ downloads[archive_path(<<"a", "_", "b">>)] = 1
    /\ hashes[archive_path(<<"a", "_", "b">>)] = 1
    /\ sha256_cache[archive_path(<<"a", "_", "b">>)] = Sha256("tar2")
    /\ packages[<<"a", "_", "b">>].built

-----------------------------------------------------------------------------
(* Claims about the resolution of dependencies (SpecResolve) *)

\* name with every underscore replaced by a dash, place by place
IsDashed(name, out) ==
    /\ Len(out) = Len(name)
    /\ \A k \in DOMAIN name :
          /\ name[k] = "_" => out[k] = "-"
          /\ name[k] # "_" => out[k] = name[k]

\* C11: an identifier that is in all_pkgs resolves, without a call of resolve_dep
\* and without being added to unresolved_dependencies, to exactly one target: the
\* identifier with every underscore replaced by a dash; "my_ros_pkg" gives
\* "my-ros-pkg".
C11_KnownPackageResolvesToNormalizedName ==
    (res_pc = "resolved" /\ res_id \in all_pkgs) =>
        /\ ~res_out.consulted
        /\ res_out.unresolved = {}
        /\ Cardinality(res_out.targets) = 1
        /\ \A t \in res_out.targets : IsDashed(res_id, t)
        /\ res_id = <<"m", "y", "_", "r", "o", "s", "_", "p", "k", "g">>
              => res_out.targets = { <<"m", "y", "-", "r", "o", "s", "-", "p", "k", "g">> }

C11_Witness ==
    /\ res_pc = "resolved"
    /\ res_id = <<"m", "y", "_", "r", "o", "s", "_", "p", "k", "g">>
    /\ res_out.targets = { <<"m", "y", "-", "r", "o", "s", "-", "p", "k", "g">> }

\* C12: an identifier that is not in all_pkgs and that the table maps to no
\* target is added to unresolved_dependencies by _resolve_dependency, which
\* returns no target for it.
C12_UnmappedIdentifierCollected ==
    (res_pc = "resolved" /\ res_id \notin all_pkgs /\ NixTable(res_id) = {}) =>
        /\ res_out.unresolved = {res_id}
        /\ res_out.targets = {}

C12_Witness ==
    /\ res_pc = "resolved"
    /\ res_id = <<"u", "_", "v">>
    /\ res_out.consulted
    /\ res_out.unresolved = { <<"u", "_", "v">> }

\* C15: in the derivation NixPackage assembles, no target identifier of
\* build_inputs (the resolved build dependencies less the propagated ones) is in
\* check_inputs, whatever the build, exec, build_export, buildtool_export and
\* test dependencies are; check_inputs loses nothing else.
C15_CheckInputsDisjointFromBuildInputs ==
    res_pc = "assembled" =>
        LET d == res_pkg.derivation IN
        /\ d.check_inputs \cap d.build_inputs = {}
        /\ d.check_inputs \cup d.build_inputs
              = _resolve_dependencies(res_deps.test) \cup d.build_inputs

\* the test dependency "x" is a build dependency too and is not propagated
C15_Witness ==
    /\ res_pc = "assembled"
    /\ <<"x">> \in res_deps.test \cap res_deps.build
    /\ <<"y">> \in res_deps.test
    /\ res_deps.exec = {}
    /\ res_pkg.derivation.build_inputs = { <<"X">>, <<"Y">> }
    /\ res_pkg.derivation.check_inputs = {}

-----------------------------------------------------------------------------
(* More claims about NixPackage (SpecNix) *)

\* C13: a NixPackage call that gets past the download computes the digest of
\* the archive exactly when it downloaded the archive or sha256_cache has no
\* entry for the path; a computed digest is that of the file now on disk, and
\* otherwise the entry of sha256_cache is used as it is.
C13_HashIffDownloadedOrNotCached ==
    [][ \A name \in NixNames :
          LET path == archive_path(name) IN
          (nix_pc = "run" /\ calls'[name] = calls[name] + 1
              /\ archive_files'[path] # NoFile)
          => /\ hashes'[path] \in { hashes[path], hashes[path] + 1 }
             /\ hashes'[path] = hashes[path] + 1
                   <=> (archive_files[path] = NoFile
                           \/ path \notin DOMAIN sha256_cache)
             /\ hashes'[path] = hashes[path] + 1
                   => sha256_cache'[path] = Sha256(archive_files'[path])
             /\ hashes'[path] = hashes[path]
                   => sha256_cache'[path] = sha256_cache[path] ]_vars

\* "a_b" was downloaded, though its path had a digest, and hashed; the archive
\* of "c" was present with a digest and was not hashed
C13_Witness ==
    /\ nix_pc = "run"
    /\ calls[<<"a", "_", "b">>] = 1
    /\ downloads[archive_path(<<"a", "_", "b">>)] = 1
    /\ hashes[archive_path(<<"a", "_", "b">>)] = 1
    /\ sha256_cache[archive_path(<<"a", "_", "b">>)] = Sha256("tar2")
    /\ calls[<<"c">>] = 1
    /\ packages[<<"c">>].built
    /\ hashes[archive_path(<<"c">>)] = 0
    /\ packages[<<"c">>].derivation.src_sha256 = StaleDigest

\* C18: a NixPackage call leaves in unresolved_dependencies exactly the
\* dependencies of that package, of all six categories, whose resolution raised
\* UnresolvedDependency, whatever the calls before it collected; and it changes
\* the object of no other package.
C18_UnresolvedPerPackage ==
    [][ \A name \in NixNames :
          (nix_pc = "run" /\ calls'[name] = calls[name] + 1)
          => /\ packages'[name].built
                   => packages'[name].unresolved_dependencies = Unmappable(name)
             /\ \A other \in NixNames \ {name} :
                   packages'[other] = packages[other] ]_vars

\* both packages were constructed, each with its own unresolved identifiers
C18_Witness ==
    /\ packages[<<"a", "_", "b">>].built
    /\ packages[<<"c">>].built
    /\ packages[<<"a", "_", "b">>].unresolved_dependencies
          = { <<"u", "_", "v">>, <<"w">> }
    /\ packages[<<"c">>].unresolved_dependencies
          = { <<"u", "_", "v">>, <<"w">>, <<"z">> }
    /\ nix_deps[<<"c">>].buildtool = { <<"u", "_", "v">> }

====
